---- MODULE Spec2Model ----
(***************************************************************************)
(* EV station finder: the response cache and directory client of           *)
(* src/src/lib/api.ts, the geolocation hook (src/unnamed/part_000) and the *)
(* Google Maps loader and callback wrappers (src/unnamed/part_002).        *)
(*                                                                         *)
(* Each component has its own specification (SpecCache, SpecApi, SpecGeo,  *)
(* SpecMaps) over the shared variable list; the variables of the other     *)
(* components stay at their initial value.                                 *)
(***************************************************************************)
EXTENDS Integers, Sequences, FiniteSets, TLC

VARIABLES
    \* ---- ApiCache (api.ts:210-240)
    cache,          \* Map<string, {data, timestamp}>: a function on the keys present
    now,            \* Date.now()
    cacheLast,      \* the last cache call: its arguments, the entry it found, its result
    readSince,      \* the keys a get has returned a value for since they were last set
    \* ---- ApiClient (api.ts:6-179)
    apiKey,         \* this.apiKey: <<>> is undefined, <<k>> a key
    call,           \* the client call under way or last finished: operation, arguments,
                    \* position, requests made, query sent, what the network did,
                    \* what the caller got
    \* ---- useGeolocation (part_000:28-174)
    geoSupported,   \* navigator.geolocation is present
    optsWatch,      \* opts.watch
    mounted,        \* "no" before the mount effect, "yes", "gone" after unmount
    state,          \* useState<GeolocationState>
    watchId,        \* useState<number | null>: <<>> is null, <<n>> a handle
    renderedWatchId,\* the watchId the callbacks of the last render closed over
    activeWatches,  \* handles of watchPosition not yet given to clearWatch
    watchesMade,    \* handles watchPosition has returned so far
    inflight,       \* single-fix requests whose callback is still to come
    requestsMade,   \* single-fix requests issued so far
    geoLast,        \* the last hook step and what it delivered
    newestDone,     \* the latest-issued single-fix request answered so far, and its outcome
    sinceReset,     \* reset() was called, and neither getCurrentPosition() nor
                    \* startWatching() since
    served,         \* the watches the browser has called back at least once
    \* ---- loadGoogleMaps and the SDK wrappers (part_002)
    apiKeyPresent,  \* process.env.NEXT_PUBLIC_GOOGLE_MAPS_API_KEY is set
    windowGoogle,   \* window.google && window.google.maps
    googleMapsPromise, \* module-level promise: <<>> is null, <<p>> a promise
    promises,       \* the promises loadGoogleMaps created, each with its outcome
    scripts,        \* script elements appended to document.head
    mapCalls        \* calls of the exported map operations

cacheVars == <<cache, now, cacheLast, readSince>>
apiVars == <<apiKey, call>>
geoVars == <<geoSupported, optsWatch, mounted, state, watchId, renderedWatchId,
             activeWatches, watchesMade, inflight, requestsMade, geoLast, newestDone,
             sinceReset>>
mapsVars == <<apiKeyPresent, windowGoogle, googleMapsPromise, promises, scripts,
              mapCalls>>
liveVars == <<served>>
vars == <<cacheVars, apiVars, geoVars, mapsVars, liveVars>>

Null == "null"

\* ERROR_MESSAGES (part_001:131-140)
NETWORK_ERROR == "Network connection failed. Please check your internet connection."
LOCATION_DENIED == "Location access denied. Please enable location services."
LOCATION_UNAVAILABLE == "Location services are not available on this device."
STATION_NOT_FOUND == "Station not found. Please try a different search."
API_RATE_LIMITED == "Too many requests. Please wait a moment and try again."
MAPS_LOAD_FAILED == "Failed to load maps. Please refresh the page."
GENERIC_ERROR == "An unexpected error occurred. Please try again."

(***************************************************************************)
(* ApiCache                                                                *)
(***************************************************************************)
Keys == {"k1", "k2"}
Values == {"v1", "v2"}

\* private ttl = 5 * 60 * 1000
ttl == 5 * 60 * 1000

\* The clock advances by half a TTL or by one millisecond more than that, so
\* that ages of exactly ttl, ttl + 1 and ttl + 2 all occur.
MaxTicks == 4
TickSteps == {ttl \div 2, (ttl \div 2) + 1}
MaxNow == MaxTicks * ((ttl \div 2) + 1)

NoCall == [op |-> "none"]

\* this.cache.size
size(c) == Cardinality(DOMAIN c)

\* Map.prototype.set on the entries
MapSet(c, k, e) == [x \in (DOMAIN c) \cup {k} |-> IF x = k THEN e ELSE c[x]]

\* Map.prototype.delete on the entries
MapDelete(c, k) == [x \in (DOMAIN c) \ {k} |-> c[x]]

\* set(key, data): this.cache.set(key, {data, timestamp: Date.now()})
CacheSetKeepsTimestamp(c, k, v, t) ==
    MapSet(c, k, [data |-> v, timestamp |-> IF k \in DOMAIN c THEN c[k].timestamp ELSE t])
CacheSetEvictsWhenFull(c, k, v, t) ==
    IF k \notin DOMAIN c /\ DOMAIN c # {}
    THEN [x \in {k} |-> [data |-> v, timestamp |-> t]]
    ELSE MapSet(c, k, [data |-> v, timestamp |-> t])
CacheSetTo(c, k, v, t) == MapSet(c, k, [data |-> v, timestamp |-> t])

\* the expiry test of get: Date.now() - item.timestamp > this.ttl
ExpiredBadBoundary(item, t) == t - item.timestamp >= ttl
Expired(item, t) == t - item.timestamp > ttl

\* get(key): the value returned
CacheGetResult(c, k, t) ==
    IF k \notin DOMAIN c THEN Null
    ELSE IF Expired(c[k], t) THEN Null
    ELSE c[k].data

\* get(key): the entries afterwards
CacheGetKeepsExpired(c, k, t) == c
CacheGetRefreshes(c, k, t) ==
    IF k \notin DOMAIN c THEN c
    ELSE IF Expired(c[k], t) THEN MapDelete(c, k)
    ELSE MapSet(c, k, [data |-> c[k].data, timestamp |-> t])
CacheAfterGet(c, k, t) ==
    IF k \in DOMAIN c /\ Expired(c[k], t) THEN MapDelete(c, k) ELSE c

CacheSet(k, v) ==
    /\ cache' = CacheSetTo(cache, k, v, now)
    /\ cacheLast' = [op |-> "set", key |-> k, data |-> v, at |-> now,
                     found |-> IF k \in DOMAIN cache THEN <<cache[k]>> ELSE <<>>,
                     sizeBefore |-> size(cache)]
    /\ readSince' = readSince \ {k}
    /\ UNCHANGED now

CacheGet(k) ==
    /\ cache' = CacheAfterGet(cache, k, now)
    /\ cacheLast' = [op |-> "get", key |-> k, at |-> now,
                     found |-> IF k \in DOMAIN cache THEN <<cache[k]>> ELSE <<>>,
                     ret |-> CacheGetResult(cache, k, now),
                     sizeBefore |-> size(cache)]
    /\ readSince' = IF CacheGetResult(cache, k, now) # Null
                    THEN readSince \cup {k} ELSE readSince
    /\ UNCHANGED now

CacheClear ==
    /\ cache' = [x \in {} |-> Null]
    /\ cacheLast' = [op |-> "clear", at |-> now]
    /\ readSince' = {}
    /\ UNCHANGED now

CacheSize ==
    /\ cacheLast' = [op |-> "size", at |-> now, ret |-> size(cache)]
    /\ UNCHANGED <<cache, now, readSince>>

Tick ==
    \E d \in TickSteps :
        /\ now + d <= MaxNow
        /\ now' = now + d
        /\ UNCHANGED <<cache, cacheLast, readSince>>

CacheInit ==
    /\ cache = [x \in {} |-> Null]
    /\ now = 0
    /\ cacheLast = NoCall
    /\ readSince = {}


(***************************************************************************)
(* useGeolocation                                                          *)
(***************************************************************************)
MaxWatches == 2
MaxRequests == 2

\* coords of a GeolocationPosition
Fixes == {[latitude |-> "37.7749", longitude |-> "-122.4194", accuracy |-> "10"],
          [latitude |-> "40.7128", longitude |-> "-74.0060", accuracy |-> "25"]}

\* GeolocationPositionError.code; "OTHER" is any code outside the three named ones
ErrorCodes == {"PERMISSION_DENIED", "POSITION_UNAVAILABLE", "TIMEOUT", "OTHER"}

LOCATION_TIMEOUT == "Location request timed out. Please try again."

\* useState<GeolocationState>({...}) and the object reset() stores
InitialState == [latitude |-> Null, longitude |-> Null, accuracy |-> Null,
                 error |-> Null, loading |-> FALSE]

\* onError: the switch on error.code
errorMessageNoTimeout(code) ==
    CASE code = "PERMISSION_DENIED" -> LOCATION_DENIED
      [] code = "POSITION_UNAVAILABLE" -> LOCATION_UNAVAILABLE
      [] OTHER -> GENERIC_ERROR
errorMessage(code) ==
    CASE code = "PERMISSION_DENIED" -> LOCATION_DENIED
      [] code = "POSITION_UNAVAILABLE" -> LOCATION_UNAVAILABLE
      [] code = "TIMEOUT" -> LOCATION_TIMEOUT
      [] OTHER -> GENERIC_ERROR

\* onSuccess: setState({latitude, longitude, accuracy, error: null, loading: false})
onSuccessStaysLoading(prev, fix) ==
    [latitude |-> fix.latitude, longitude |-> fix.longitude,
     accuracy |-> fix.accuracy, error |-> Null, loading |-> TRUE]
onSuccessNoAccuracy(prev, fix) ==
    [latitude |-> fix.latitude, longitude |-> fix.longitude,
     accuracy |-> prev.accuracy, error |-> Null, loading |-> FALSE]
onSuccess(prev, fix) ==
    [latitude |-> fix.latitude, longitude |-> fix.longitude,
     accuracy |-> fix.accuracy, error |-> Null, loading |-> FALSE]

\* onError: setState(prev => ({...prev, error: errorMessage, loading: false}))
onErrorStaysLoading(prev, code) == [prev EXCEPT !.error = errorMessage(code)]
onError(prev, code) == [prev EXCEPT !.error = errorMessage(code), !.loading = FALSE]

\* hasLocation: state.latitude !== null && state.longitude !== null
hasLocation(st) == st.latitude # Null /\ st.longitude # Null

\* getCurrentPosition, !navigator.geolocation branch
GetUnsupportedStaysLoading(prev) ==
    [prev EXCEPT !.error = LOCATION_UNAVAILABLE, !.loading = TRUE]
GetUnsupported(prev) == [prev EXCEPT !.error = LOCATION_UNAVAILABLE, !.loading = FALSE]

\* startWatching, !navigator.geolocation branch
WatchUnsupported(prev) == [prev EXCEPT !.error = LOCATION_UNAVAILABLE]

\* setState(prev => ({...prev, loading: true, error: null}))
SetLoading(prev) == [prev EXCEPT !.loading = TRUE, !.error = Null]

\* the outcome a browser callback carries
FixOutcome(fix) == [kind |-> "fix", fix |-> fix, code |-> Null]
ErrorOutcome(code) == [kind |-> "error", fix |-> Null, code |-> code]
Outcomes == {FixOutcome(f) : f \in Fixes} \cup {ErrorOutcome(c) : c \in ErrorCodes}

\* the callback the browser invokes for an outcome
Callback(prev, o) == IF o.kind = "fix" THEN onSuccess(prev, o.fix) ELSE onError(prev, o.code)

\* setState on an unmounted component is dropped
SetState(new) == state' = IF mounted = "gone" THEN state ELSE new

\* navigator.geolocation.clearWatch(id) on the browser's subscriptions
clearWatch(ws, id) == ws \ {id}

\* getCurrentPosition (part_000:75-92)
GetCurrentPositionBody ==
    IF ~geoSupported
    THEN /\ state' = GetUnsupported(state)
         /\ UNCHANGED <<inflight, requestsMade>>
    ELSE /\ state' = SetLoading(state)
         /\ requestsMade' = requestsMade + 1
         /\ inflight' = inflight \cup {requestsMade + 1}

\* startWatching (part_000:94-112)
StartWatchingBody ==
    IF ~geoSupported
    THEN /\ state' = WatchUnsupported(state)
         /\ UNCHANGED <<watchId, activeWatches, watchesMade>>
    ELSE /\ state' = SetLoading(state)
         /\ watchesMade' = watchesMade + 1
         /\ activeWatches' = activeWatches \cup {watchesMade + 1}
         /\ watchId' = <<watchesMade + 1>>

\* the mount effect (part_000:141-147)
Mount ==
    /\ mounted = "no"
    /\ mounted' = "yes"
    /\ IF optsWatch
       THEN StartWatchingBody /\ UNCHANGED <<inflight, requestsMade>>
       ELSE GetCurrentPositionBody /\ UNCHANGED <<watchId, activeWatches, watchesMade>>
    /\ geoLast' = [op |-> "mount"]
    /\ UNCHANGED <<geoSupported, optsWatch, newestDone, sinceReset, renderedWatchId>>

GetCurrentPosition ==
    /\ mounted = "yes"
    /\ geoSupported => requestsMade < MaxRequests
    /\ GetCurrentPositionBody
    /\ geoLast' = [op |-> "getCurrentPosition"]
    /\ sinceReset' = FALSE
    /\ UNCHANGED <<geoSupported, optsWatch, newestDone, mounted, watchId, renderedWatchId,
                   activeWatches, watchesMade>>

StartWatching ==
    /\ mounted = "yes"
    /\ geoSupported => watchesMade < MaxWatches
    /\ StartWatchingBody
    /\ geoLast' = [op |-> "startWatching"]
    /\ sinceReset' = FALSE
    /\ UNCHANGED <<geoSupported, optsWatch, newestDone, mounted, renderedWatchId, inflight,
                   requestsMade>>

\* stopWatching (part_000:114-120), with the watchId of the last render
StopWatching ==
    /\ mounted = "yes"
    /\ IF renderedWatchId # <<>>
       THEN /\ activeWatches' = clearWatch(activeWatches, renderedWatchId[1])
            /\ watchId' = <<>>
            /\ state' = [state EXCEPT !.loading = FALSE]
       ELSE UNCHANGED <<activeWatches, watchId, state>>
    /\ geoLast' = [op |-> "stopWatching"]
    /\ UNCHANGED <<geoSupported, optsWatch, newestDone, sinceReset, mounted, renderedWatchId, watchesMade,
                   inflight, requestsMade>>

\* clearError (part_000:122-124)
ClearError ==
    /\ mounted = "yes"
    /\ state' = [state EXCEPT !.error = Null]
    /\ geoLast' = [op |-> "clearError"]
    /\ UNCHANGED <<geoSupported, optsWatch, newestDone, sinceReset, mounted, watchId, renderedWatchId,
                   activeWatches, watchesMade, inflight, requestsMade>>

\* reset (part_000:126-138), with the watchId of the last render
Reset ==
    /\ mounted = "yes"
    /\ IF renderedWatchId # <<>>
       THEN /\ activeWatches' = clearWatch(activeWatches, renderedWatchId[1])
            /\ watchId' = <<>>
       ELSE UNCHANGED <<activeWatches, watchId>>
    /\ state' = InitialState
    /\ geoLast' = [op |-> "reset"]
    /\ sinceReset' = TRUE
    /\ UNCHANGED <<geoSupported, optsWatch, newestDone, mounted, renderedWatchId, watchesMade,
                   inflight, requestsMade>>

\* A re-render after setWatchId: the cleanup of the [watchId] effect
\* (part_000:156-162) runs with the handle it closed over, and the callbacks
\* are re-created with the new one.
Render ==
    /\ mounted = "yes"
    /\ watchId # renderedWatchId
    /\ activeWatches' = IF renderedWatchId # <<>>
                        THEN clearWatch(activeWatches, renderedWatchId[1])
                        ELSE activeWatches
    /\ renderedWatchId' = watchId
    /\ geoLast' = [op |-> "render"]
    /\ UNCHANGED <<geoSupported, optsWatch, newestDone, sinceReset, mounted, state, watchId, watchesMade,
                   inflight, requestsMade>>

\* Unmount: the cleanup of the mount effect closed over the first render's
\* watchId, which is null (part_000:148-152); the cleanup of the [watchId]
\* effect closed over the last render's (part_000:157-161).
Unmount ==
    /\ mounted = "yes"
    /\ mounted' = "gone"
    /\ activeWatches' = IF renderedWatchId # <<>>
                        THEN clearWatch(activeWatches, renderedWatchId[1])
                        ELSE activeWatches
    /\ geoLast' = [op |-> "unmount"]
    /\ UNCHANGED <<geoSupported, optsWatch, newestDone, sinceReset, state, watchId, renderedWatchId,
                   watchesMade, inflight, requestsMade>>

\* The browser answers a single-fix request: exactly one callback.
DeliverFix(r, o) ==
    /\ r \in inflight
    /\ inflight' = inflight \ {r}
    /\ SetState(Callback(state, o))
    /\ geoLast' = [op |-> "deliver", req |-> r, outcome |-> o]
    /\ newestDone' = IF newestDone # <<>> /\ newestDone[1].req > r
                     THEN newestDone
                     ELSE <<[req |-> r, outcome |-> o]>>
    /\ UNCHANGED <<geoSupported, optsWatch, sinceReset, mounted, watchId, renderedWatchId,
                   activeWatches, watchesMade, requestsMade>>

\* The browser reports to an active watch: any number of callbacks.
DeliverWatch(w, o) ==
    /\ w \in activeWatches
    /\ SetState(Callback(state, o))
    /\ geoLast' = [op |-> "watch", outcome |-> o]
    /\ UNCHANGED <<geoSupported, optsWatch, newestDone, sinceReset, mounted, watchId, renderedWatchId,
                   activeWatches, watchesMade, inflight, requestsMade>>

GeoInit ==
    /\ served = {}
    /\ sinceReset = FALSE
    /\ geoSupported \in BOOLEAN
    /\ optsWatch \in BOOLEAN
    /\ mounted = "no"
    /\ state = InitialState
    /\ watchId = <<>>
    /\ renderedWatchId = <<>>
    /\ activeWatches = {}
    /\ watchesMade = 0
    /\ inflight = {}
    /\ requestsMade = 0
    /\ geoLast = NoCall
    /\ newestDone = <<>>


(***************************************************************************)
(* ApiClient                                                               *)
(***************************************************************************)
MaxStations == 2

\* OPEN_CHARGE_MAP_CONFIG.maxStationsPerRequest (its default)
maxStationsPerRequest == 100

Stations == {"s1", "s2"}

Ops == {"searchStations", "getStationById", "getConnectionTypes", "getOperators",
        "getCountries", "getUsageTypes", "getStatusTypes"}

\* A decoded JSON value: an array of items, an object, or null.
ArrayOf(items) == [kind |-> "array", items |-> items]
EmptyObject == [kind |-> "object", items |-> <<>>]
JsonNull == [kind |-> "null", items |-> <<>>]
Item(x) == [kind |-> "item", items |-> <<x>>]

SeqsUpTo(S, n) == UNION {[1..m -> S] : m \in 0..n}

Payloads == {ArrayOf(q) : q \in SeqsUpTo(Stations, MaxStations)} \cup {EmptyObject, JsonNull}

HttpStatuses == {200, 404, 429, 500}

\* What fetch and response.json() can do: fetch rejects (with an Error, or in a
\* polyfill with something else), or a response arrives whose body decodes
\* to a payload or does not decode.
Responded(st, decodes, body) ==
    [kind |-> "response", status |-> st, decodes |-> decodes, body |-> body]
FetchThrew(isError) ==
    [kind |-> "throw", status |-> 0, decodes |-> FALSE, body |-> JsonNull, isError |-> isError]
NetOutcomes ==
    {Responded(st, TRUE, b) : st \in HttpStatuses, b \in Payloads}
    \cup {Responded(st, FALSE, JsonNull) : st \in HttpStatuses}
    \cup {FetchThrew(e) : e \in BOOLEAN}

\* response.ok
ok(st) == st >= 200 /\ st <= 299

\* `API Error: ${response.status} ${response.statusText}`
ApiErrorMessage(st) ==
    CASE st = 404 -> "API Error: 404 Not Found"
      [] st = 429 -> "API Error: 429 Too Many Requests"
      [] st = 500 -> "API Error: 500 Internal Server Error"
      [] OTHER -> "API Error"

FETCH_FAILED == "Failed to fetch"
JSON_SYNTAX_ERROR == "Unexpected end of JSON input"

NoMeta == <<>>

\* the catch block of makeRequest
Failure(message) ==
    [data |-> ArrayOf(<<>>), success |-> FALSE, error |-> message, meta |-> NoMeta]

\* the statement that throws for a response that is not ok (api.ts:45-50)
NotOkMessageNo429(st) == ApiErrorMessage(st)
NotOkMessage(st) == IF st = 429 THEN API_RATE_LIMITED ELSE ApiErrorMessage(st)

\* meta.total: Array.isArray(data) ? data.length : 1
TotalOffByOne(data) == IF data.kind = "array" THEN Len(data.items) + 1 ELSE 1
Total(data) == IF data.kind = "array" THEN Len(data.items) ELSE 1

\* makeRequest (api.ts:15-72): the envelope for what the network did
makeRequest(o) ==
    IF o.kind = "throw"
    THEN Failure(IF o.isError THEN FETCH_FAILED ELSE GENERIC_ERROR)
    ELSE IF ~ok(o.status) THEN Failure(NotOkMessage(o.status))
    ELSE IF ~o.decodes THEN Failure(JSON_SYNTAX_ERROR)
    ELSE [data |-> o.body, success |-> TRUE, error |-> Null,
          meta |-> <<[total |-> Total(o.body), page |-> 1,
                      limit |-> maxStationsPerRequest]>>]

Value(envelope) == [kind |-> "value", envelope |-> envelope, message |-> Null]
Rejected(message) == [kind |-> "rejected", envelope |-> Failure(Null), message |-> message]
Pending == [kind |-> "pending", envelope |-> Failure(Null), message |-> Null]

TYPE_ERROR == "Cannot read properties of null (reading 'length')"

\* getStationById (api.ts:139-158) after its makeRequest: reading .length of a
\* null payload throws, an object has no length (undefined > 0 is false)
getStationByIdTakesLast(response) ==
    IF response.success /\ response.data.kind = "null" THEN Rejected(TYPE_ERROR)
    ELSE IF response.success /\ response.data.kind = "array"
            /\ Len(response.data.items) > 0
    THEN Value([response EXCEPT
                    !.data = Item(response.data.items[Len(response.data.items)])])
    ELSE Value([data |-> EmptyObject, success |-> FALSE,
                error |-> STATION_NOT_FOUND, meta |-> NoMeta])
getStationById(response) ==
    IF response.success /\ response.data.kind = "null" THEN Rejected(TYPE_ERROR)
    ELSE IF response.success /\ response.data.kind = "array"
            /\ Len(response.data.items) > 0
    THEN Value([response EXCEPT !.data = Item(response.data.items[1])])
    ELSE Value([data |-> EmptyObject, success |-> FALSE,
                error |-> STATION_NOT_FOUND, meta |-> NoMeta])

\* what the caller of an operation gets for what the network did
OpResult(op, o) ==
    IF op = "getStationById" THEN getStationById(makeRequest(o))
    ELSE Value(makeRequest(o))

\* OPEN_CHARGE_MAP_CONFIG (part_001:32-39)
countryCode == "US"
includeComments == TRUE
verbose == FALSE

\* JavaScript values of a params object
Undefined == [t |-> "undefined", v |-> 0]
Num(n) == [t |-> "num", v |-> n]
Str(s) == [t |-> "str", v |-> s]
Bool(b) == [t |-> "bool", v |-> b]
Arr(q) == [t |-> "arr", v |-> q]

\* an optional field of SearchFilters: <<>> when not set, <<x>> when set to x
FieldNum(f) == IF f = <<>> THEN Undefined ELSE Num(f[1])
FieldStr(f) == IF f = <<>> THEN Undefined ELSE Str(f[1])
FieldBool(f) == IF f = <<>> THEN Undefined ELSE Bool(f[1])

\* ToBoolean
Truthy(x) ==
    CASE x.t = "undefined" -> FALSE
      [] x.t = "num" -> x.v # 0
      [] x.t = "str" -> x.v # ""
      [] x.t = "bool" -> x.v
      [] OTHER -> TRUE

\* x || y
Or(x, y) == IF Truthy(x) THEN x ELSE y

\* toString() of a value that is not an array
toString(x) ==
    CASE x.t = "num" -> ToString(x.v)
      [] x.t = "bool" -> IF x.v THEN "true" ELSE "false"
      [] OTHER -> x.v

NoFilters == [location |-> <<>>, radius |-> <<>>, connectionTypes |-> <<>>,
              levelIds |-> <<>>, statusTypes |-> <<>>, operatorIds |-> <<>>,
              countryCode |-> <<>>, maxResults |-> <<>>, openData |-> <<>>,
              includeComments |-> <<>>, powerKW |-> <<>>, usageTypeId |-> <<>>]

IdLists == {<<>>, <<25>>, <<10, 20, 50>>}

\* SearchFilters values: no field set, one field set, and all fields set
Filters ==
    {NoFilters}
    \cup {[NoFilters EXCEPT !.location = <<[latitude |-> 51, longitude |-> 0]>>]}
    \cup {[NoFilters EXCEPT !.radius = <<25>>]}
    \cup {[NoFilters EXCEPT !.connectionTypes = <<l>>] : l \in IdLists}
    \cup {[NoFilters EXCEPT !.levelIds = <<l>>] : l \in IdLists}
    \cup {[NoFilters EXCEPT !.statusTypes = <<l>>] : l \in IdLists}
    \cup {[NoFilters EXCEPT !.operatorIds = <<l>>] : l \in IdLists}
    \cup {[NoFilters EXCEPT !.countryCode = <<"GB">>]}
    \cup {[NoFilters EXCEPT !.maxResults = <<50>>]}
    \cup {[NoFilters EXCEPT !.openData = <<b>>] : b \in BOOLEAN}
    \cup {[NoFilters EXCEPT !.includeComments = <<b>>] : b \in BOOLEAN}
    \cup {[NoFilters EXCEPT !.powerKW = <<[min |-> mn, max |-> mx]>>] :
              mn \in {<<>>, <<0>>, <<7>>}, mx \in {<<>>, <<50>>}}
    \cup {[NoFilters EXCEPT !.usageTypeId = <<1>>]}
    \cup {[location |-> <<[latitude |-> 51, longitude |-> 0]>>, radius |-> <<25>>,
           connectionTypes |-> <<<<25>>>>, levelIds |-> <<<<10, 20, 50>>>>,
           statusTypes |-> <<<<10, 20, 50>>>>, operatorIds |-> <<<<25>>>>,
           countryCode |-> <<"GB">>, maxResults |-> <<50>>, openData |-> <<TRUE>>,
           includeComments |-> <<TRUE>>,
           powerKW |-> <<[min |-> <<7>>, max |-> <<50>>]>>, usageTypeId |-> <<1>>]}

StationIds == {1, 2}

\* a list filter that is set and not empty becomes one array parameter
ListParam(name, f) ==
    IF f # <<>> /\ Len(f[1]) > 0 THEN <<<<name, Arr(f[1])>>>> ELSE <<>>

\* searchStations (api.ts:74-136): the params object, as its entries in
\* insertion order
searchParams(f) ==
    << <<"output", Str("json")>>,
       <<"countrycode", Or(FieldStr(f.countryCode), Str(countryCode))>>,
       <<"maxresults", Or(FieldNum(f.maxResults), Num(maxStationsPerRequest))>>,
       <<"compact", Bool(~verbose)>>,
       <<"verbose", Bool(verbose)>>,
       <<"includecomments", Or(FieldBool(f.includeComments), Bool(includeComments))>> >>
    \o (IF f.location # <<>>
        THEN << <<"latitude", Num(f.location[1].latitude)>>,
                <<"longitude", Num(f.location[1].longitude)>> >>
        ELSE <<>>)
    \o (IF Truthy(FieldNum(f.radius))
        THEN << <<"distance", Num(f.radius[1])>>, <<"distanceunit", Str("Miles")>> >>
        ELSE <<>>)
    \o ListParam("connectiontypeid", f.connectionTypes)
    \o ListParam("levelid", f.levelIds)
    \o ListParam("statustypeid", f.statusTypes)
    \o ListParam("operatorid", f.operatorIds)
    \o (IF f.powerKW # <<>> /\ Truthy(FieldNum(f.powerKW[1].min))
        THEN << <<"minpowerkw", Num(f.powerKW[1].min[1])>> >> ELSE <<>>)
    \o (IF f.powerKW # <<>> /\ Truthy(FieldNum(f.powerKW[1].max))
        THEN << <<"maxpowerkw", Num(f.powerKW[1].max[1])>> >> ELSE <<>>)
    \o (IF Truthy(FieldNum(f.usageTypeId))
        THEN << <<"usagetypeid", Num(f.usageTypeId[1])>> >> ELSE <<>>)
    \o (IF f.openData # <<>>
        THEN << <<"opendata", Bool(f.openData[1])>> >> ELSE <<>>)

\* the params object of each operation (api.ts:140-144, 160-178)
ParamsOf(op, f, id) ==
    CASE op = "searchStations" -> searchParams(f)
      [] op = "getStationById" ->
            << <<"chargepointid", Num(id)>>, <<"includecomments", Bool(TRUE)>>,
               <<"verbose", Bool(TRUE)>> >>
      [] OTHER -> <<>>

\* url.searchParams.append for one entry of params (api.ts:27-33)
AppendParam(e) ==
    IF e[2].t = "undefined" \/ (e[2].t = "str" /\ e[2].v = "") THEN <<>>
    ELSE IF e[2].t = "arr"
    THEN [i \in 1..Len(e[2].v) |-> <<e[1], toString(Num(e[2].v[i]))>>]
    ELSE << <<e[1], toString(e[2])>> >>

RECURSIVE AppendParams(_)
AppendParams(ps) ==
    IF ps = <<>> THEN <<>> ELSE AppendParam(Head(ps)) \o AppendParams(Tail(ps))

\* makeRequest (api.ts:17-35): the query string of the request, as its
\* name/value pairs in order
QueryOf(key, ps) ==
    (IF key # <<>> THEN << <<"key", key[1]>> >> ELSE <<>>) \o AppendParams(ps)

\* An operation is called: it runs up to the fetch of its one makeRequest.
ApiInvoke(op, f, id) ==
    /\ call.pc # "fetching"
    /\ call' = [op |-> op, filters |-> f, id |-> id, pc |-> "fetching",
                requests |-> 1, query |-> QueryOf(apiKey, ParamsOf(op, f, id)),
                net |-> FetchThrew(TRUE), result |-> Pending]
    /\ UNCHANGED apiKey

\* The fetch settles and the operation runs to its end.
ApiSettle(o) ==
    /\ call.pc = "fetching"
    /\ call' = [call EXCEPT !.pc = "done", !.net = o, !.result = OpResult(call.op, o)]
    /\ UNCHANGED apiKey

ApiInit ==
    /\ apiKey \in {<<>>, <<"ocm-key">>}
    /\ call = [op |-> "none", filters |-> NoFilters, id |-> 0, pc |-> "idle",
               requests |-> 0, query |-> <<>>,
               net |-> FetchThrew(TRUE), result |-> Pending]


(***************************************************************************)
(* loadGoogleMaps and the SDK wrappers                                     *)
(***************************************************************************)
MaxMapCalls == 2

MapOps == {"loadGoogleMaps", "initializeMap", "geocodeAddress", "reverseGeocode",
           "calculateDistance", "getDirections"}
WrappedOps == {"geocodeAddress", "reverseGeocode", "calculateDistance", "getDirections"}

KEY_NOT_FOUND == "Google Maps API key not found"

\* What the SDK hands to a callback: a status, and a result that is null
\* ("absent"), has no entry ("empty": no geocoder result, no matrix element, no
\* route) or has one ("full"); a matrix element has a status of its own.
SdkStatuses == {"OK", "ZERO_RESULTS", "REQUEST_DENIED"}
SdkOutcomes == [status : SdkStatuses, results : {"absent", "empty", "full"},
                elementOk : BOOLEAN]

\* if (googleMapsPromise) return googleMapsPromise
LoadAlways(gmp) == FALSE
LoadReuses(gmp) == gmp # <<>>

\* The executor of the new promise (part_002:14-47): how the promise starts
\* out, and whether a script element was appended.
ExecutorNoKeyCheck(wg, key) ==
    IF wg THEN [state |-> "resolved", reason |-> Null, script |-> FALSE]
    ELSE [state |-> "pending", reason |-> Null, script |-> TRUE]
Executor(wg, key) ==
    IF wg THEN [state |-> "resolved", reason |-> Null, script |-> FALSE]
    ELSE IF ~key THEN [state |-> "rejected", reason |-> KEY_NOT_FOUND, script |-> FALSE]
    ELSE [state |-> "pending", reason |-> Null, script |-> TRUE]

\* loadGoogleMaps (part_002:9-50): the promise returned
LoadReturns == IF LoadReuses(googleMapsPromise) THEN googleMapsPromise[1]
               ELSE Len(promises) + 1

\* loadGoogleMaps: its effect on the module state and the document
LoadEffect ==
    IF LoadReuses(googleMapsPromise)
    THEN UNCHANGED <<googleMapsPromise, promises, scripts>>
    ELSE LET e == Executor(windowGoogle, apiKeyPresent) IN
         /\ googleMapsPromise' = <<Len(promises) + 1>>
         /\ promises' = Append(promises, [state |-> e.state, reason |-> e.reason])
         /\ scripts' = IF e.script
                       THEN Append(scripts, [promise |-> Len(promises) + 1,
                                             status |-> "loading"])
                       ELSE scripts

NoInner == [kind |-> "none", prefix |-> Null, status |-> Null]
NoSdk == [status |-> Null, results |-> Null, elementOk |-> FALSE]

\* the message prefix of each wrapper's rejection
FailedPrefix(op) ==
    CASE op = "geocodeAddress" -> "Geocoding failed: "
      [] op = "reverseGeocode" -> "Reverse geocoding failed: "
      [] op = "calculateDistance" -> "Distance calculation failed: "
      [] op = "getDirections" -> "Directions request failed: "

\* the test each callback makes before it resolves
CallbackAcceptsAnyStatus(op, o) == o.results = "full"
CallbackAccepts(op, o) ==
    IF op \in {"geocodeAddress", "reverseGeocode"}
    THEN o.status = "OK" /\ o.results = "full"
    ELSE o.status = "OK" /\ o.results # "absent"

\* the promise wrapped around the SDK callback
Wrapper(op, o) ==
    IF CallbackAccepts(op, o)
    THEN [kind |-> "resolved", prefix |-> Null, status |-> o.status]
    ELSE [kind |-> "rejected", prefix |-> FailedPrefix(op), status |-> o.status]

MapValue(v) == [kind |-> "value", value |-> v, message |-> Null]
MapNull == [kind |-> "null", value |-> Null, message |-> Null]
MapRejected(m) == [kind |-> "rejected", value |-> Null, message |-> m]
MapPending == [kind |-> "pending", value |-> Null, message |-> Null]

\* what the caller of a wrapped operation gets after the wrapper has settled:
\* the catch block turns a rejection, and a TypeError on a missing route,
\* into null
CatchRethrows(op, o, inner) ==
    IF inner.kind = "rejected" THEN MapRejected(<<inner.prefix, inner.status>>)
    ELSE MapValue(op)
AfterWrapper(op, o, inner) ==
    IF inner.kind = "rejected" THEN MapNull
    ELSE CASE op \in {"geocodeAddress", "reverseGeocode"} -> MapValue("Location")
           [] op = "calculateDistance" ->
                IF o.results = "full" /\ o.elementOk
                THEN MapValue("DistanceAndDuration") ELSE MapNull
           [] op = "getDirections" ->
                IF o.results = "full" THEN MapValue("NavigationRoute") ELSE MapNull

\* An operation is called and runs up to its await of loadGoogleMaps().
MapInvoke(op) ==
    /\ Len(mapCalls) < MaxMapCalls
    /\ LoadEffect
    /\ mapCalls' = Append(mapCalls,
          [op |-> op, p |-> LoadReturns, pc |-> "awaitLoad",
           atCall |-> IF LoadReuses(googleMapsPromise)
                      THEN promises[googleMapsPromise[1]].state ELSE "new",
           observed |-> "pending", sdk |-> NoSdk, inner |-> NoInner,
           result |-> MapPending])
    /\ UNCHANGED <<apiKeyPresent, windowGoogle>>

\* script.onload (part_002:34-40); the script may or may not define the global
ScriptOnload(i, defines) ==
    /\ i \in 1..Len(scripts)
    /\ scripts[i].status = "loading"
    /\ scripts' = [scripts EXCEPT ![i].status = "loaded"]
    /\ windowGoogle' = (windowGoogle \/ defines)
    /\ promises' = [promises EXCEPT ![scripts[i].promise] =
                       IF windowGoogle'
                       THEN [state |-> "resolved", reason |-> Null]
                       ELSE [state |-> "rejected", reason |-> MAPS_LOAD_FAILED]]
    /\ UNCHANGED <<apiKeyPresent, googleMapsPromise, mapCalls>>

\* script.onerror (part_002:42-44)
ScriptOnerror(i) ==
    /\ i \in 1..Len(scripts)
    /\ scripts[i].status = "loading"
    /\ scripts' = [scripts EXCEPT ![i].status = "error"]
    /\ promises' = [promises EXCEPT ![scripts[i].promise] =
                       [state |-> "rejected", reason |-> MAPS_LOAD_FAILED]]
    /\ UNCHANGED <<apiKeyPresent, windowGoogle, googleMapsPromise, mapCalls>>

\* The awaited load promise has settled and the operation goes on: the
\* loader's caller and initializeMap take the outcome as it is, a wrapped
\* operation issues its SDK call or falls into its catch block.
AfterLoad(c) ==
    /\ c \in 1..Len(mapCalls)
    /\ mapCalls[c].pc = "awaitLoad"
    /\ promises[mapCalls[c].p].state # "pending"
    /\ LET pr == promises[mapCalls[c].p]
           op == mapCalls[c].op
       IN mapCalls' = [mapCalls EXCEPT
              ![c].observed = pr.state,
              ![c].pc = IF op \in WrappedOps /\ pr.state = "resolved"
                        THEN "awaitSdk" ELSE "done",
              ![c].result =
                  IF op \in WrappedOps
                  THEN (IF pr.state = "resolved" THEN MapPending ELSE MapNull)
                  ELSE (IF pr.state = "resolved" THEN MapValue(op)
                        ELSE MapRejected(pr.reason))]
    /\ UNCHANGED <<apiKeyPresent, windowGoogle, googleMapsPromise, promises, scripts>>

\* The SDK invokes the callback of a wrapped call, and the operation finishes.
SdkCallback(c, o) ==
    /\ c \in 1..Len(mapCalls)
    /\ mapCalls[c].pc = "awaitSdk"
    /\ LET op == mapCalls[c].op
           inner == Wrapper(op, o)
       IN mapCalls' = [mapCalls EXCEPT
              ![c].pc = "done",
              ![c].sdk = o,
              ![c].inner = inner,
              ![c].result = AfterWrapper(op, o, inner)]
    /\ UNCHANGED <<apiKeyPresent, windowGoogle, googleMapsPromise, promises, scripts>>

MapsInit ==
    /\ apiKeyPresent \in BOOLEAN
    /\ windowGoogle \in BOOLEAN
    /\ googleMapsPromise = <<>>
    /\ promises = <<>>
    /\ scripts = <<>>
    /\ mapCalls = <<>>


(***************************************************************************)
(* Specifications                                                          *)
(***************************************************************************)
cacheOnly == <<apiVars, geoVars, mapsVars, liveVars>>
apiOnly == <<cacheVars, geoVars, mapsVars, liveVars>>
geoOnly == <<cacheVars, apiVars, mapsVars, liveVars>>
mapsOnly == <<cacheVars, apiVars, geoVars, liveVars>>

NextCache ==
    \/ \E k \in Keys, v \in Values : CacheSet(k, v) /\ UNCHANGED cacheOnly
    \/ \E k \in Keys : CacheGet(k) /\ UNCHANGED cacheOnly
    \/ CacheClear /\ UNCHANGED cacheOnly
    \/ CacheSize /\ UNCHANGED cacheOnly
    \/ Tick /\ UNCHANGED cacheOnly

NextApi ==
    \/ \E f \in Filters : ApiInvoke("searchStations", f, 0) /\ UNCHANGED apiOnly
    \/ \E id \in StationIds :
          ApiInvoke("getStationById", NoFilters, id) /\ UNCHANGED apiOnly
    \/ \E op \in Ops \ {"searchStations", "getStationById"} :
          ApiInvoke(op, NoFilters, 0) /\ UNCHANGED apiOnly
    \/ \E o \in NetOutcomes : ApiSettle(o) /\ UNCHANGED apiOnly

NextGeo ==
    \/ Mount /\ UNCHANGED geoOnly
    \/ GetCurrentPosition /\ UNCHANGED geoOnly
    \/ StartWatching /\ UNCHANGED geoOnly
    \/ StopWatching /\ UNCHANGED geoOnly
    \/ ClearError /\ UNCHANGED geoOnly
    \/ Reset /\ UNCHANGED geoOnly
    \/ Render /\ UNCHANGED geoOnly
    \/ Unmount /\ UNCHANGED geoOnly
    \/ \E r \in 1..MaxRequests, o \in Outcomes : DeliverFix(r, o) /\ UNCHANGED geoOnly
    \/ \E w \in 1..MaxWatches, o \in Outcomes : DeliverWatch(w, o) /\ UNCHANGED geoOnly

NextMaps ==
    \/ \E op \in MapOps : MapInvoke(op) /\ UNCHANGED mapsOnly
    \/ \E i \in 1..MaxMapCalls, d \in BOOLEAN : ScriptOnload(i, d) /\ UNCHANGED mapsOnly
    \/ \E i \in 1..MaxMapCalls : ScriptOnerror(i) /\ UNCHANGED mapsOnly
    \/ \E c \in 1..MaxMapCalls : AfterLoad(c) /\ UNCHANGED mapsOnly
    \/ \E c \in 1..MaxMapCalls, o \in SdkOutcomes : SdkCallback(c, o) /\ UNCHANGED mapsOnly

\* A callback of watch w, recorded: the browser owes every watch that stays
\* active one callback, and this tells the first from the later ones.
WatchCallback(w, o) ==
    /\ DeliverWatch(w, o)
    /\ served' = served \cup {w}
    /\ UNCHANGED <<cacheVars, apiVars, mapsVars>>

FirstCallback(w) == \E o \in Outcomes : w \notin served /\ WatchCallback(w, o)

\* The one callback of single-fix request r
RequestCallback(r) == \E o \in Outcomes : DeliverFix(r, o) /\ UNCHANGED geoOnly

\* Liveness is checked over fewer requests and watches than safety.
MaxLiveRequests == 1
MaxLiveWatches == 1

\* The hook with the browser's callbacks recorded per watch
NextGeoLive ==
    \/ Mount /\ UNCHANGED geoOnly
    \/ GetCurrentPosition /\ requestsMade < MaxLiveRequests /\ UNCHANGED geoOnly
    \/ StartWatching /\ watchesMade < MaxLiveWatches /\ UNCHANGED geoOnly
    \/ StopWatching /\ UNCHANGED geoOnly
    \/ ClearError /\ UNCHANGED geoOnly
    \/ Reset /\ UNCHANGED geoOnly
    \/ Render /\ UNCHANGED geoOnly
    \/ Unmount /\ UNCHANGED geoOnly
    \/ \E r \in 1..MaxLiveRequests : RequestCallback(r)
    \/ \E w \in 1..MaxLiveWatches, o \in Outcomes : WatchCallback(w, o)

\* The browser invokes the one callback of every single-fix request, and at
\* least one callback of every watch that stays active.
BrowserCallsBack ==
    /\ \A r \in 1..MaxLiveRequests : WF_vars(RequestCallback(r))
    /\ \A w \in 1..MaxLiveWatches : WF_vars(FirstCallback(w))

\* A component that takes no step in a specification has a fixed environment.
ApiIdle == ApiInit /\ apiKey = <<>>
GeoIdle == GeoInit /\ geoSupported /\ ~optsWatch
MapsIdle == MapsInit /\ apiKeyPresent /\ ~windowGoogle

InitCache == CacheInit /\ ApiIdle /\ GeoIdle /\ MapsIdle
InitApi == CacheInit /\ ApiInit /\ GeoIdle /\ MapsIdle
InitGeo == CacheInit /\ ApiIdle /\ GeoInit /\ MapsIdle
InitMaps == CacheInit /\ ApiIdle /\ GeoIdle /\ MapsInit

SpecCache == InitCache /\ [][NextCache]_vars
SpecApi == InitApi /\ [][NextApi]_vars
SpecGeo == InitGeo /\ [][NextGeo]_vars
SpecMaps == InitMaps /\ [][NextMaps]_vars
SpecGeoLive == InitGeo /\ [][NextGeoLive]_vars /\ BrowserCallsBack

(***************************************************************************)
(* Properties                                                              *)
(***************************************************************************)

\* C1: a get returns the stored value exactly when an entry for the key exists
\* and its age is at most the TTL; otherwise it returns null, and an entry
\* that existed is gone afterwards and no longer counted by size().
CacheGetHonoursTtl ==
    cacheLast.op = "get" =>
        LET existed == cacheLast.found # <<>>
            fresh == existed /\ cacheLast.at - cacheLast.found[1].timestamp <= ttl
        IN /\ fresh => /\ cacheLast.ret = cacheLast.found[1].data
                       /\ cacheLast.key \in DOMAIN cache
                       /\ size(cache) = cacheLast.sizeBefore
           /\ ~fresh => /\ cacheLast.ret = Null
                        /\ cacheLast.key \notin DOMAIN cache
                        /\ size(cache) = cacheLast.sizeBefore - (IF existed THEN 1 ELSE 0)

\* a get found an entry older than the TTL, returned null and removed it
ExpiredEntryLookedUp ==
    /\ cacheLast.op = "get"
    /\ cacheLast.found # <<>>
    /\ cacheLast.at - cacheLast.found[1].timestamp > ttl
    /\ cacheLast.ret = Null
    /\ cacheLast.sizeBefore = 2
    /\ size(cache) = 1

\* C2: at most one watch subscription of the hook is active at any time, and
\* none is left active after stopWatching(), reset() or unmount.
OneWatchReleasedOnExit ==
    /\ Cardinality(activeWatches) <= 1
    /\ geoLast.op \in {"stopWatching", "reset", "unmount"} => activeWatches = {}

\* C3: the envelope of makeRequest (and so of searchStations and the lookup
\* passthroughs): a decoded 2xx body gives success with the payload and, for
\* an array, meta.total equal to its length; 429 gives the rate-limit
\* message; every other failure a non-empty message; a failure never
\* carries data.
EnvelopeContract ==
    (call.pc = "done" /\ call.op # "getStationById") =>
        LET e == call.result.envelope
            o == call.net
            good == o.kind = "response" /\ ok(o.status) /\ o.decodes
        IN /\ call.result.kind = "value"
           /\ e.success \in BOOLEAN
           /\ good => /\ e.success
                      /\ e.data = o.body
                      /\ e.meta # NoMeta
                      /\ o.body.kind = "array" => e.meta[1].total = Len(o.body.items)
           /\ (o.kind = "response" /\ o.status = 429) =>
                  /\ ~e.success
                  /\ e.data = ArrayOf(<<>>)
                  /\ e.error = API_RATE_LIMITED
           /\ ~good => /\ ~e.success
                       /\ e.data = ArrayOf(<<>>)
                       /\ e.error \notin {Null, ""}
           /\ ~e.success => e.data = ArrayOf(<<>>)

\* searchStations was answered 429 and returned the rate-limit envelope
SearchRateLimited ==
    /\ call.pc = "done"
    /\ call.op = "searchStations"
    /\ call.net.kind = "response"
    /\ call.net.status = 429
    /\ call.result.envelope.error = API_RATE_LIMITED

\* C4: however many operations call loadGoogleMaps, one promise is created
\* and at most one script injected; every caller holds the first caller's
\* promise and sees its outcome; a call made after the load failed gets the
\* same rejection and starts no new load.
LoadedAtMostOnce ==
    /\ Len(promises) <= 1
    /\ Len(scripts) <= 1
    /\ \A c \in 1..Len(mapCalls) :
        /\ mapCalls[c].p = mapCalls[1].p
        /\ mapCalls[c].observed # "pending" =>
               mapCalls[c].observed = promises[mapCalls[1].p].state
        /\ mapCalls[c].atCall = "rejected" =>
               /\ promises[mapCalls[c].p].state = "rejected"
               /\ \A i \in 1..Len(scripts) : scripts[i].status # "loading"

\* a second operation was called after the script had failed, and was
\* rejected like the first
CalledAfterLoadFailed ==
    /\ Len(mapCalls) = 2
    /\ Len(scripts) = 1
    /\ scripts[1].status = "error"
    /\ mapCalls[1].observed = "rejected"
    /\ mapCalls[2].atCall = "rejected"
    /\ mapCalls[2].observed = "rejected"

\* C5: without navigator.geolocation the hook is never loading, issues no
\* request and no watch, and a call that asks for the position (the mount
\* effect, getCurrentPosition, startWatching) leaves the unavailable message.
UnsupportedFailsAtOnce ==
    ~geoSupported =>
        /\ ~state.loading
        /\ inflight = {} /\ requestsMade = 0
        /\ activeWatches = {} /\ watchesMade = 0 /\ watchId = <<>>
        /\ geoLast.op \in {"mount", "getCurrentPosition", "startWatching"} =>
               state.error = LOCATION_UNAVAILABLE

\* getCurrentPosition was called without the capability, after the error of
\* the mount had been cleared
UnsupportedPositionAsked ==
    /\ ~geoSupported
    /\ geoLast.op = "getCurrentPosition"
    /\ state.error = LOCATION_UNAVAILABLE
    /\ ~state.loading

\* the state shows the outcome of a callback
Shows(st, o) ==
    IF o.kind = "fix"
    THEN /\ st.latitude = o.fix.latitude
         /\ st.longitude = o.fix.longitude
         /\ st.accuracy = o.fix.accuracy
         /\ st.error = Null
    ELSE st.error = errorMessage(o.code)

\* C6: when the callback of an earlier single-fix request arrives after the
\* callback of a later one, the state still shows the later request's result.
NewerRequestWins ==
    (mounted = "yes" /\ geoLast.op = "deliver" /\ newestDone[1].req > geoLast.req) =>
        Shows(state, newestDone[1].outcome)

\* C7: every client operation answered 429 returns a failed envelope with
\* the rate-limit message, after exactly one request.
RateLimitSurfaced ==
    (call.pc = "done" /\ call.net.kind = "response" /\ call.net.status = 429) =>
        /\ call.result.kind = "value"
        /\ ~call.result.envelope.success
        /\ call.result.envelope.error = API_RATE_LIMITED
        /\ call.requests = 1

\* C8: getStationById on a decoded 2xx array: a non-empty array gives success
\* with its first element as data, an empty one the station-not-found error.
StationByIdUnwrapsFirst ==
    (/\ call.pc = "done" /\ call.op = "getStationById"
     /\ call.net.kind = "response" /\ ok(call.net.status) /\ call.net.decodes
     /\ call.net.body.kind = "array") =>
        LET e == call.result.envelope
            items == call.net.body.items
        IN /\ call.result.kind = "value"
           /\ Len(items) > 0 => e.success /\ e.data = Item(items[1])
           /\ Len(items) = 0 => ~e.success /\ e.error = STATION_NOT_FOUND

\* getStationById got two different stations and returned the first
StationByIdOfTwo ==
    /\ call.pc = "done" /\ call.op = "getStationById"
    /\ call.net.kind = "response" /\ ok(call.net.status) /\ call.net.decodes
    /\ call.net.body = ArrayOf(<<"s2", "s1">>)
    /\ call.result.envelope.data = Item("s2")

\* C9: no exported operation of the client or of the map adapter ends in a
\* thrown exception or a rejected promise.
NoErrorEscapes ==
    /\ call.result.kind # "rejected"
    /\ \A c \in 1..Len(mapCalls) :
        mapCalls[c].op # "loadGoogleMaps" => mapCalls[c].result.kind # "rejected"

\* a wrapped SDK call has completed with a status other than OK
NonOkCompleted(c) ==
    /\ mapCalls[c].pc = "done"
    /\ mapCalls[c].op \in WrappedOps
    /\ mapCalls[c].sdk # NoSdk
    /\ mapCalls[c].sdk.status # "OK"

\* C10 as stated: a wrapped SDK call that completes with a non-OK status
\* rejects the caller of the adapter operation.
NonOkRejectsCaller ==
    \A c \in 1..Len(mapCalls) : NonOkCompleted(c) => mapCalls[c].result.kind = "rejected"

\* C10 as amended: on a non-OK status the promise wrapped around the callback
\* is rejected with the operation's message and the status, and the caller of
\* the adapter operation gets null, not a rejection.
NonOkRejectsWrapperOnly ==
    \A c \in 1..Len(mapCalls) :
        NonOkCompleted(c) =>
            /\ mapCalls[c].inner = [kind |-> "rejected",
                                    prefix |-> FailedPrefix(mapCalls[c].op),
                                    status |-> mapCalls[c].sdk.status]
            /\ mapCalls[c].result = MapNull

\* getDirections completed with REQUEST_DENIED although a response was passed
DirectionsDenied ==
    \E c \in 1..Len(mapCalls) :
        /\ NonOkCompleted(c)
        /\ mapCalls[c].op = "getDirections"
        /\ mapCalls[c].sdk.status = "REQUEST_DENIED"
        /\ mapCalls[c].sdk.results = "full"
        /\ mapCalls[c].result = MapNull

\* C11: a wrapped operation never rejects; it resolves to null when the SDK
\* did not load, the status is not OK, the result has no entry, or the one
\* matrix element of calculateDistance is not OK, and to a value only when
\* the status is OK.
WrappedResolveNullOnFailure ==
    \A c \in 1..Len(mapCalls) :
        (mapCalls[c].op \in WrappedOps /\ mapCalls[c].pc = "done") =>
            LET m == mapCalls[c] IN
            /\ m.result.kind \in {"value", "null"}
            /\ m.observed = "rejected" => m.result = MapNull
            /\ (m.sdk # NoSdk /\ m.sdk.status # "OK") => m.result = MapNull
            /\ (m.sdk # NoSdk /\ m.sdk.results # "full") => m.result = MapNull
            /\ (m.sdk # NoSdk /\ m.op = "calculateDistance" /\ ~m.sdk.elementOk) =>
                   m.result = MapNull
            /\ m.result.kind = "value" =>
                   m.observed = "resolved" /\ m.sdk # NoSdk /\ m.sdk.status = "OK"

\* calculateDistance got an OK matrix whose one element was not OK
DistanceElementNotOk ==
    \E c \in 1..Len(mapCalls) :
        /\ mapCalls[c].op = "calculateDistance"
        /\ mapCalls[c].pc = "done"
        /\ mapCalls[c].sdk = [status |-> "OK", results |-> "full", elementOk |-> FALSE]
        /\ mapCalls[c].result = MapNull

\* C12: a get changes neither the value nor the timestamp of any entry it
\* leaves in the cache, and a get of an entry older than the TTL returns null
\* whether or not earlier gets returned its value.
GetNeverRefreshes ==
    [][cacheLast'.op = "get" =>
          /\ \A k \in DOMAIN cache' : k \in DOMAIN cache /\ cache'[k] = cache[k]
          /\ (/\ cacheLast'.found # <<>>
              /\ cacheLast'.at > cacheLast'.found[1].timestamp + ttl) =>
                 cacheLast'.ret = Null]_vars

\* an entry whose value a get had returned was looked up after its TTL, measured
\* from its insertion, and was absent
ReadEntryExpired ==
    /\ cacheLast.op = "get"
    /\ cacheLast.key \in readSince
    /\ cacheLast.found # <<>>
    /\ cacheLast.at > cacheLast.found[1].timestamp + ttl
    /\ cacheLast.ret = Null

\* C13: set(k, v) leaves exactly one entry for k, holding v and the time of
\* this set, whatever entry k had before, and leaves every other entry as it
\* was; a later get within the TTL of this set returns v.
SetOverwrites ==
    [][(cacheLast'.op = "set" =>
          /\ DOMAIN cache' = DOMAIN cache \cup {cacheLast'.key}
          /\ cache'[cacheLast'.key] = [data |-> cacheLast'.data,
                                       timestamp |-> cacheLast'.at]
          /\ size(cache') = cacheLast'.sizeBefore
                            + (IF cacheLast'.found = <<>> THEN 1 ELSE 0)
          /\ \A k \in DOMAIN cache \ {cacheLast'.key} : cache'[k] = cache[k])
       /\ ((/\ cacheLast.op = "set"
            /\ cacheLast'.op = "get"
            /\ cacheLast'.key = cacheLast.key
            /\ cacheLast'.at - cacheLast.at <= ttl) =>
              cacheLast'.ret = cacheLast.data)]_vars

\* a set replaced an older entry of the same key that held another value,
\* while the other key had an entry
OverwroteOlderEntry ==
    /\ cacheLast.op = "set"
    /\ cacheLast.found # <<>>
    /\ cacheLast.found[1].data # cacheLast.data
    /\ cacheLast.found[1].timestamp + ttl < cacheLast.at
    /\ cache[cacheLast.key] = [data |-> cacheLast.data, timestamp |-> cacheLast.at]
    /\ size(cache) = 2

\* C14: an entry leaves the cache only by clear() or by a get of its key
\* after its TTL; a set removes no entry; after clear() the cache is empty
\* and stays empty, every get returning null, until the next set.
EvictsOnlyForAge ==
    [][/\ \A k \in DOMAIN cache \ DOMAIN cache' :
            \/ cacheLast'.op = "clear"
            \/ /\ cacheLast'.op = "get"
               /\ cacheLast'.key = k
               /\ cacheLast'.at - cache[k].timestamp > ttl
       /\ cacheLast'.op = "set" => DOMAIN cache \subseteq DOMAIN cache'
       /\ cacheLast'.op = "clear" => size(cache') = 0
       /\ (size(cache) = 0 /\ cacheLast'.op # "set") => size(cache') = 0
       /\ (size(cache) = 0 /\ cacheLast'.op = "get") => cacheLast'.ret = Null]_vars

\* a set added a key while the other key's entry, already past its TTL, stayed
SetKeptExpiredNeighbour ==
    /\ cacheLast.op = "set"
    /\ cacheLast.found = <<>>
    /\ size(cache) = 2
    /\ \E k \in DOMAIN cache : cacheLast.at - cache[k].timestamp > ttl

\* the four states of the hook's state machine
Class(st) ==
    IF st.loading THEN "loading"
    ELSE IF st.error # Null THEN "failed"
    ELSE IF st.latitude # Null THEN "resolved"
    ELSE "idle"

Classes == {"idle", "loading", "resolved", "failed"}

\* idle -> loading -> {resolved, failed}, and back to loading
MachineEdges == {<<"idle", "loading">>, <<"loading", "resolved">>,
                 <<"loading", "failed">>, <<"resolved", "loading">>,
                 <<"failed", "loading">>}

\* C15 as stated: every change of class is an edge of the state machine.
OnlyMachineEdges ==
    [][Class(state) # Class(state') =>
          <<Class(state), Class(state')>> \in MachineEdges]_vars

\* the changes of class each step of the hook can make
StepEdges(op, o) ==
    CASE op \in {"mount", "getCurrentPosition", "startWatching"} ->
            IF geoSupported THEN {<<c, "loading">> : c \in Classes}
            ELSE {<<c, "failed">> : c \in Classes}
      [] op \in {"deliver", "watch"} ->
            IF o.kind = "fix" THEN {<<c, "resolved">> : c \in Classes}
            ELSE {<<c, "failed">> : c \in Classes}
      [] op = "clearError" -> {<<"failed", "idle">>, <<"failed", "resolved">>}
      [] op = "stopWatching" -> {<<"loading", "idle">>, <<"loading", "resolved">>}
      [] op = "reset" -> {<<c, "idle">> : c \in Classes}
      [] OTHER -> {}

\* C15 as amended: a request (with the capability) leads to loading from any
\* class, a success callback to resolved and an error callback to failed from
\* any class, a request without the capability to failed, clearError from
\* failed to idle or resolved, stopWatching from loading to idle or resolved,
\* reset to idle; no other step changes the class.
ClassChangesByStep ==
    [][Class(state) # Class(state') =>
          <<Class(state), Class(state')>> \in
              StepEdges(geoLast'.op,
                        IF geoLast'.op \in {"deliver", "watch"}
                        THEN geoLast'.outcome ELSE ErrorOutcome("OTHER"))]_vars

\* an error callback arrived while a fix was shown: resolved to failed
\* without passing through loading
FailedWhileResolved ==
    /\ geoLast.op \in {"deliver", "watch"}
    /\ geoLast.outcome.kind = "error"
    /\ state.latitude # Null
    /\ Class(state) = "failed"

\* C16: after an error callback the hook is not loading and its error is the
\* message of the error's code: denied, unavailable, timed out, or the
\* generic message for any other code; the four messages differ.
ErrorMessageByCode ==
    /\ Cardinality({LOCATION_DENIED, LOCATION_UNAVAILABLE, LOCATION_TIMEOUT,
                    GENERIC_ERROR}) = 4
    /\ (/\ mounted = "yes"
        /\ geoLast.op \in {"deliver", "watch"}
        /\ geoLast.outcome.kind = "error") =>
           /\ ~state.loading
           /\ geoLast.outcome.code = "PERMISSION_DENIED" =>
                  state.error = LOCATION_DENIED
           /\ geoLast.outcome.code = "POSITION_UNAVAILABLE" =>
                  state.error = LOCATION_UNAVAILABLE
           /\ geoLast.outcome.code = "TIMEOUT" => state.error = LOCATION_TIMEOUT
           /\ geoLast.outcome.code = "OTHER" => state.error = GENERIC_ERROR

\* a single-fix request timed out
RequestTimedOut ==
    /\ mounted = "yes"
    /\ geoLast.op = "deliver"
    /\ geoLast.outcome.kind = "error"
    /\ geoLast.outcome.code = "TIMEOUT"
    /\ state.error = LOCATION_TIMEOUT

\* the values sent under one parameter name, in order
Sent(q, name) ==
    LET es == SelectSeq(q, LAMBDA e : e[1] = name)
    IN  [i \in 1..Len(es) |-> es[i][2]]

\* what a 1:1 translation sends for a scalar field: its value when the field
\* is set, the configured default (or nothing) when it is not
OneToOne(x, default) == IF x.t = "undefined" THEN default ELSE <<toString(x)>>

\* what a 1:1 translation sends for a list field: one value per element
Repeated(f) == IF f = <<>> THEN <<>> ELSE [i \in 1..Len(f[1]) |-> ToString(f[1][i])]

\* C17: every request of searchStations carries, for each SearchFilters field
\* that is set, the corresponding query parameter with exactly the supplied
\* value (radius as distance with distanceunit Miles, location as latitude and
\* longitude, powerKW.min/max as minpowerkw/maxpowerkw, and so on), one
\* repeated parameter per element of each identifier list, and for a field
\* that is not set nothing but the configured default.
FiltersTranslatedOneToOne ==
    call.op = "searchStations" =>
        LET f == call.filters
            q == call.query
            pw == IF f.powerKW = <<>> THEN [min |-> <<>>, max |-> <<>>] ELSE f.powerKW[1]
        IN  /\ Sent(q, "distance") = OneToOne(FieldNum(f.radius), <<>>)
            /\ Sent(q, "distanceunit") = (IF f.radius = <<>> THEN <<>> ELSE <<"Miles">>)
            /\ Sent(q, "latitude") =
                  (IF f.location = <<>> THEN <<>> ELSE <<ToString(f.location[1].latitude)>>)
            /\ Sent(q, "longitude") =
                  (IF f.location = <<>> THEN <<>> ELSE <<ToString(f.location[1].longitude)>>)
            /\ Sent(q, "minpowerkw") = OneToOne(FieldNum(pw.min), <<>>)
            /\ Sent(q, "maxpowerkw") = OneToOne(FieldNum(pw.max), <<>>)
            /\ Sent(q, "maxresults") =
                  OneToOne(FieldNum(f.maxResults), <<ToString(maxStationsPerRequest)>>)
            /\ Sent(q, "includecomments") =
                  OneToOne(FieldBool(f.includeComments), <<toString(Bool(includeComments))>>)
            /\ Sent(q, "countrycode") = OneToOne(FieldStr(f.countryCode), <<countryCode>>)
            /\ Sent(q, "usagetypeid") = OneToOne(FieldNum(f.usageTypeId), <<>>)
            /\ Sent(q, "opendata") = OneToOne(FieldBool(f.openData), <<>>)
            /\ Sent(q, "connectiontypeid") = Repeated(f.connectionTypes)
            /\ Sent(q, "levelid") = Repeated(f.levelIds)
            /\ Sent(q, "statustypeid") = Repeated(f.statusTypes)
            /\ Sent(q, "operatorid") = Repeated(f.operatorIds)

\* a script that errored, or loaded without defining the SDK global, rejected
\* its load with the maps-load-failed message; a load succeeded only with the
\* SDK global available
LoadOutcomeFollowsScript ==
    /\ \A i \in 1..Len(scripts) :
          (scripts[i].status = "error" \/ (scripts[i].status = "loaded" /\ ~windowGoogle))
              => promises[scripts[i].promise] =
                     [state |-> "rejected", reason |-> MAPS_LOAD_FAILED]
    /\ \A p \in 1..Len(promises) : promises[p].state = "resolved" => windowGoogle

\* C18 as stated: whenever the API key is absent every load is rejected and
\* no script is injected; a script error, or a load that leaves the SDK
\* global undefined, rejects with the maps-load-failed message; a load
\* succeeds only when the SDK global is available.
KeyAbsentAlwaysRejects ==
    /\ ~apiKeyPresent =>
          /\ scripts = <<>>
          /\ \A p \in 1..Len(promises) : promises[p].state = "rejected"
    /\ LoadOutcomeFollowsScript

\* C18: with the API key absent no script is injected, and the load is
\* rejected with 'Google Maps API key not found' unless the SDK global was
\* already present, in which case it succeeds without a key; a script error,
\* or a load that leaves the SDK global undefined, rejects with the
\* maps-load-failed message; a load succeeds only when the SDK global is
\* available.
KeyAbsentRejectsUnlessPreloaded ==
    /\ ~apiKeyPresent =>
          /\ scripts = <<>>
          /\ \A p \in 1..Len(promises) :
                promises[p] = IF windowGoogle
                              THEN [state |-> "resolved", reason |-> Null]
                              ELSE [state |-> "rejected", reason |-> KEY_NOT_FOUND]
    /\ LoadOutcomeFollowsScript

\* the loader ran without a key and without a preloaded SDK, and rejected
LoadRejectedForMissingKey ==
    /\ ~apiKeyPresent
    /\ ~windowGoogle
    /\ Len(promises) = 1
    /\ promises[1] = [state |-> "rejected", reason |-> KEY_NOT_FOUND]
    /\ scripts = <<>>

\* C19: right after reset() the five state fields are cleared (positions and
\* error null, loading false) and no watch is active; and from reset() until
\* the next getCurrentPosition() or startWatching() call the state stays
\* cleared, whatever the browser still delivers.
ResetStaysCleared ==
    /\ geoLast.op = "reset" => (state = InitialState /\ activeWatches = {})
    /\ sinceReset => state = InitialState

\* the three position fields of a state
Position(st) == <<st.latitude, st.longitude, st.accuracy>>

\* the position fields are all null or all non-null
AllOrNone(st) ==
    \/ (st.latitude = Null /\ st.longitude = Null /\ st.accuracy = Null)
    \/ (st.latitude # Null /\ st.longitude # Null /\ st.accuracy # Null)

\* C20: latitude, longitude and accuracy are all null or all non-null in every
\* state, so hasLocation is latitude being non-null; a success callback on the
\* mounted hook sets all three from the fix and clears error and loading; an
\* error callback, clearError() and stopWatching() leave all three as they were.
PositionFieldsMoveTogether ==
    [][ /\ AllOrNone(state) /\ AllOrNone(state')
        /\ hasLocation(state') <=> (state'.latitude # Null)
        /\ (geoLast'.op \in {"deliver", "watch"} /\ mounted' = "yes") =>
              IF geoLast'.outcome.kind = "fix"
              THEN /\ Position(state') = <<geoLast'.outcome.fix.latitude,
                                           geoLast'.outcome.fix.longitude,
                                           geoLast'.outcome.fix.accuracy>>
                   /\ state'.error = Null
                   /\ ~state'.loading
              ELSE Position(state') = Position(state)
        /\ geoLast'.op \in {"clearError", "stopWatching"} =>
              Position(state') = Position(state)
      ]_vars

\* a request failed after a fix had been shown: the fix is still there, next
\* to the error
LastFixKeptAfterFailure ==
    /\ mounted = "yes"
    /\ geoLast.op = "deliver"
    /\ geoLast.outcome.kind = "error"
    /\ hasLocation(state)
    /\ state.accuracy # Null
    /\ state.error = errorMessage(geoLast.outcome.code)

====
